---- MODULE Spec2Model ----
(***************************************************************************)
(* The reactive rule engine of AIHomeController: the rule process manager  *)
(* (hubitat/rules/process.py), the condition kinds (condition.py), the     *)
(* timer and clock services (timers.py, clock.py), the hub client's        *)
(* subscription table (hubitat/client.py) and the rule manager             *)
(* (hubitat/rules/manager.py).                                             *)
(*                                                                         *)
(* Scheduling: one asyncio event loop.  Code between two awaits that       *)
(* really suspend runs atomically, so one TLA+ action is one such stretch  *)
(* of a coroutine.  A suspended coroutine is a record in `tasks`: its      *)
(* add_condition call stack and the continuation of its callers.           *)
(* The only await that suspends is get_attribute (an HTTP round trip) in   *)
(* _fetch_new_attributes, and aio.sleep inside the timer and clock tasks.  *)
(*                                                                         *)
(* Environment: a run installs rules of the catalogue below (each name at  *)
(* most once), uninstalls them, and the hub posts an event whenever an     *)
(* observed attribute changes.  Exceptions are values of the field exc of  *)
(* the record the operators thread through a coroutine's steps.            *)
(***************************************************************************)
EXTENDS Integers, Sequences, FiniteSets, TLC

\* ------------------------------------------------------------------ bounds
\* how many of the catalogue's rules one run installs
MaxRules == 3
\* how many seconds one run lets pass
MaxTicks == 2
\* how many conditions the rules of one run hold altogether
MaxConds == 4
\* how many rules a run that executes an action list or creates a scene installs
MaxScriptRules == 1
\* how many rules the rules file holds when a run starts by reloading it
MaxSaved == 3
\* timer tasks alive at a time when a caller drives the timer service itself
MaxTimers == 2

\* ------------------------------------------------- constants of the program
HoursPerDay == 24
MinutesPerHour == 60
LastMinute == 59
SecondsPerMinute == 60
SecondsPerDay == 86400
\* Optional[int] = None for a duration / timeout
NoDuration == -1

NoExc == "none"

\* -------------------------------------------------------------- helpers
EmptyFn == [x \in {} |-> x]

Put(f, k, v) == [x \in (DOMAIN f) \cup {k} |-> IF x = k THEN v ELSE f[x]]

Del(f, k) == [x \in (DOMAIN f) \ {k} |-> f[x]]

\* every sequence that lists the elements of S once
Orders(S) ==
  {q \in [1..Cardinality(S) -> S] : \A i, j \in 1..Cardinality(S) : i # j => q[i] # q[j]}

SeqRange(q) == {q[i] : i \in 1..Len(q)}

FilterBy(q, S) == SelectSeq(q, LAMBDA x : x \in S)

\* -------------------------------------------------- the condition catalogue
\* The condition objects the rules below compile to.  Each is one instance
\* (its identifier carries the class's instance counter).
DeviceCond(d, a, op, vt, v, dur, act) ==
  [kind |-> "device", vtype |-> vt, device_id |-> d, attribute |-> a, operator |-> op,
   value |-> v, conditions |-> <<>>, duration |-> dur, hour |-> 0, minute |-> 0,
   timeout |-> NoDuration, tact |-> "none", act |-> act]

BooleanCond(op, subs, dur, act) ==
  [kind |-> "boolean", vtype |-> "", device_id |-> 0, attribute |-> "", operator |-> op,
   value |-> "", conditions |-> subs, duration |-> dur, hour |-> 0, minute |-> 0,
   timeout |-> NoDuration, tact |-> "none", act |-> act]

TimeOfDayCond(op, h, mi, act) ==
  [kind |-> "time_of_day", vtype |-> "", device_id |-> 0, attribute |-> "", operator |-> op,
   value |-> "", conditions |-> <<>>, duration |-> NoDuration, hour |-> h, minute |-> mi,
   timeout |-> NoDuration, tact |-> "none", act |-> act]

\* TrueCondition(timeout): its duration is the timeout's seconds; it does not
\* override Condition.timeout, which stays None
TrueCond(t) ==
  [kind |-> "true", vtype |-> "", device_id |-> 0, attribute |-> "", operator |-> "",
   value |-> "", conditions |-> <<>>, duration |-> t, hour |-> 0, minute |-> 0,
   timeout |-> NoDuration, tact |-> "none", act |-> "none"]

\* condition_for_model(condition, timeout): the device and the Boolean kinds
\* take the timeout, TimeOfDayStateCondition is built without it
ConditionForModel(model, timeout) ==
  CASE model.kind = "device"      -> [model EXCEPT !.timeout = timeout]
    [] model.kind = "boolean"     -> [model EXCEPT !.timeout = timeout]
    [] model.kind = "time_of_day" -> model

\* _handle_until / _handle_wait: the compiled condition gets its action and
\* its timeout_action (the closures are kept in `closures`)
Waiter(condition) == [condition EXCEPT !.act = "triggered", !.tact = "timeout"]

Cond ==
  [c \in {"D1", "D2", "D3", "Dm", "P", "S1", "S2", "O", "S3", "N", "S4", "Ta", "Ti",
          "I1", "It", "U1", "Ub", "S5", "Ut", "W1", "We", "Wt", "Wd"} |->
     CASE c = "D1" -> DeviceCond(1, "switch", "=", "str", "on", NoDuration, "rule")
       [] c = "D2" -> DeviceCond(1, "level", ">", "int", 20, NoDuration, "rule")
       [] c = "D3" -> DeviceCond(1, "switch", "=", "str", "on", NoDuration, "rule")
       [] c = "Dm" -> DeviceCond(2, "motion", "=", "str", "active", 2, "rule")
       [] c = "P"  -> BooleanCond("and", <<"S1", "S2">>, NoDuration, "rule")
       [] c = "S1" -> DeviceCond(1, "switch", "=", "str", "on", NoDuration, "none")
       [] c = "S2" -> DeviceCond(2, "motion", "=", "str", "active", NoDuration, "none")
       [] c = "O"  -> BooleanCond("or", <<"S3", "N">>, NoDuration, "rule")
       [] c = "S3" -> DeviceCond(1, "switch", "!=", "str", "on", NoDuration, "none")
       [] c = "N"  -> BooleanCond("not", <<"S4">>, NoDuration, "none")
       [] c = "S4" -> DeviceCond(2, "motion", "=", "str", "active", NoDuration, "none")
       [] c = "Ta" -> TimeOfDayCond("after", 7, 30, "rule")
       [] c = "Ti" -> TimeOfDayCond("is", 7, 30, "rule")
       \* the predicates of the IfThenElse actions below
       [] c = "I1" -> ConditionForModel(
                        DeviceCond(1, "switch", "=", "str", "on", NoDuration, "none"), NoDuration)
       [] c = "It" -> ConditionForModel(TimeOfDayCond("after", 7, 30, "none"), NoDuration)
       \* the conditions of the Until actions below, each with timeout = 1
       [] c = "U1" -> Waiter(ConditionForModel(
                        DeviceCond(2, "motion", "=", "str", "active", NoDuration, "none"), 1))
       [] c = "Ub" -> Waiter(ConditionForModel(
                        BooleanCond("and", <<"S5">>, NoDuration, "none"), 1))
       [] c = "S5" -> DeviceCond(2, "motion", "=", "str", "active", NoDuration, "none")
       [] c = "Ut" -> Waiter(ConditionForModel(TimeOfDayCond("is", 7, 30, "none"), 1))
       \* the conditions of the Wait actions below, each with timeout = 1
       [] c = "W1" -> Waiter(ConditionForModel(
                        DeviceCond(1, "switch", "=", "str", "on", NoDuration, "none"), 1))
       [] c = "We" -> Waiter(ConditionForModel(
                        DeviceCond(1, "switch", "=", "str", "on", NoDuration, "none"), 1))
       [] c = "Wt" -> Waiter(TrueCond(1))
       [] c = "Wd" -> Waiter(TrueCond(1))]

CondIds == DOMAIN Cond

\* The rules a run may install: name -> the condition its trigger compiles to.
\* Their action lists are RuleActions below.
Rule ==
  [r \in {"r_switch", "r_level", "r_switch2", "r_motion", "r_and", "r_or", "r_after", "r_is"} |->
     CASE r = "r_switch"  -> [trigger |-> "D1"]
       [] r = "r_level"   -> [trigger |-> "D2"]
       [] r = "r_switch2" -> [trigger |-> "D3"]
       [] r = "r_motion"  -> [trigger |-> "Dm"]
       [] r = "r_and"     -> [trigger |-> "P"]
       [] r = "r_or"      -> [trigger |-> "O"]
       [] r = "r_after"   -> [trigger |-> "Ta"]
       [] r = "r_is"      -> [trigger |-> "Ti"]]

RuleNames == DOMAIN Rule

\* ------------------------------------------------------ the action catalogue
\* DeviceControlAction: the command stands for device, command and arguments
DeviceControl(cmd) == [kind |-> "device", command |-> cmd]

\* IfThenElseAction; c is the object condition_for_model(if_condition) returns
IfThenElse(c, th, el, has_else) ==
  [kind |-> "if_then_else", cond |-> c, then_actions |-> th, else_actions |-> el,
   has_else |-> has_else]

\* UntilAction; c is the object condition_for_model(condition, timeout) returns
Until(c, ua, ta, has_ta) ==
  [kind |-> "until", cond |-> c, until_actions |-> ua, timeout_actions |-> ta,
   has_timeout_actions |-> has_ta]

\* WaitAction; c is the object _handle_wait compiles (a TrueCondition if the
\* action has no condition)
Wait(c, end_on_timeout) == [kind |-> "wait", cond |-> c, end_on_timeout |-> end_on_timeout]

\* _ExitAction
Exit == [kind |-> "exit"]

\* The action lists a run may hand to execute_actions (ExecuteActionsTool).
Program ==
  [p \in {"p_ctl", "p_if", "p_if_time", "p_until", "p_until_bool", "p_until_time",
          "p_wait", "p_wait_end", "p_wait_true", "p_delay"} |->
     CASE p = "p_ctl" -> <<DeviceControl("on"), DeviceControl("dim")>>
       [] p = "p_if" ->
            <<IfThenElse("I1", <<DeviceControl("then")>>, <<DeviceControl("else")>>, TRUE),
              DeviceControl("rest")>>
       [] p = "p_if_time" ->
            <<IfThenElse("It", <<DeviceControl("then")>>, <<>>, FALSE), DeviceControl("rest")>>
       [] p = "p_until" ->
            <<Until("U1", <<DeviceControl("off")>>, <<DeviceControl("dim")>>, TRUE),
              DeviceControl("rest")>>
       [] p = "p_until_bool" ->
            <<Until("Ub", <<DeviceControl("off")>>, <<DeviceControl("dim")>>, TRUE),
              DeviceControl("rest")>>
       [] p = "p_until_time" ->
            <<Until("Ut", <<DeviceControl("off")>>, <<DeviceControl("dim")>>, TRUE),
              DeviceControl("rest")>>
       [] p = "p_wait"      -> <<Wait("W1", FALSE), DeviceControl("rest")>>
       [] p = "p_wait_end"  -> <<Wait("We", TRUE), DeviceControl("rest")>>
       [] p = "p_wait_true" -> <<Wait("Wt", TRUE), DeviceControl("rest")>>
       [] p = "p_delay"     -> <<Wait("Wd", FALSE), DeviceControl("rest")>>]

ProgramNames == DOMAIN Program

\* The action lists of the rules: r_motion switches the light off, the others
\* have none (the interpreter appends Exit to each).
RuleActions ==
  [r \in RuleNames |-> IF r = "r_motion" THEN <<DeviceControl("off")>> ELSE <<>>]

\* The scenes a run may create: name -> the (device, attribute, value) checks
\* of its settings, and the identifiers of the two triggers _Scene.__init__
\* is written to build for it.
Scene ==
  [s \in {"evening"} |->
     [checks |-> {<<1, "switch", "on">>}, set_trigger |-> "Es", unset_trigger |-> "En"]]

SceneNames == DOMAIN Scene

\* the commands of the device-control actions of a list, in order
RECURSIVE CommandsOf(_)
CommandsOf(actions) ==
  IF actions = <<>> THEN <<>>
  ELSE (IF Head(actions).kind = "device" THEN <<Head(actions).command>> ELSE <<>>)
         \o CommandsOf(Tail(actions))

\* the compiled conditions an action list names, nested lists included
RECURSIVE CondsOfActions(_)
CondsOfActions(actions) ==
  IF actions = <<>> THEN {}
  ELSE LET a == Head(actions) IN
       (CASE a.kind = "if_then_else" ->
               {a.cond} \cup CondsOfActions(a.then_actions) \cup CondsOfActions(a.else_actions)
          [] a.kind = "until" ->
               {a.cond} \cup CondsOfActions(a.until_actions)
                        \cup CondsOfActions(a.timeout_actions)
          [] a.kind = "wait" -> {a.cond}
          [] OTHER -> {})
       \cup CondsOfActions(Tail(actions))

\* ------------------------------------------------------------ the hub
\* what the hub reports and sends for each attribute (strings, as in its JSON)
\* the time of day of a run without time-of-day conditions
Noon == 12 * 3600

HubValues ==
  [p \in {<<1, "switch">>, <<1, "level">>, <<2, "motion">>} |->
     CASE p = <<1, "switch">> -> {"on", "off"}
       [] p = <<1, "level">>  -> {"10", "50"}
       [] p = <<2, "motion">> -> {"active", "inactive"}]

HubAttrs == DOMAIN HubValues

\* int(value) of the strings the hub sends for level
ParseInt(s) == CASE s = "10" -> 10 [] s = "50" -> 50

\* the wall clock at which a run starts, in seconds after midnight
StartTimes == {7 * 3600 + 29 * 60 + 58, 7 * 3600 + 30 * 60 + 58, 8 * 3600}

\* ------------------------------------------------------------------ state
VARIABLES
  conditions,         \* RuleProcessManager._conditions: id -> recorded truth
  condition_deps,     \* RuleProcessManager._condition_deps: child id -> parent ids
  tracked_devices,    \* RuleProcessManager._tracked_devices: device -> attr -> ids
  latest_attributes,  \* RuleProcessManager._latest_attributes: device -> attr -> value
  subscriptions,      \* HubitatClient._subscriptions: device -> attrs the callback passes on
  device_value,       \* DeviceStateCondition._device_value of each object
  subconditions,      \* BooleanStateCondition._subconditions: the cached child truths
  timers,             \* TimerService._timers: timer id -> task
  ttasks,             \* the timer_task coroutines: task -> [key, due, st]
  clocks,             \* ClockService._clocks: the registered clock ids
  ctasks,             \* the clock_task coroutines that are alive: clock id -> due
  installed_rules,    \* RuleManager._installed_rules: name -> trigger
  rules_file,         \* the names in the persisted rules file
  hub,                \* the hub's current attribute values
  now,                \* seconds since the run started
  startClock,         \* wall clock at the start of the run, seconds after midnight
  lastDay,            \* whether the day of the run is the last day of its month
  tasks,              \* the suspended coroutines
  requested,          \* the rules install_rule has been called for
  enabled,            \* the rules this run installs
  step,               \* what the last stretch of code did (history)
  riseTime,           \* when each condition's truth last rose, -1 after a fall (history)
  closures,           \* Condition._action / _timeout_action of the compiled conditions
  scenes,             \* SceneManager._scenes: name -> is_set
  scenes_file,        \* the names in the persisted scenes file
  logged,             \* the install errors the startup reload has printed
  script,             \* the action list or scene this run uses, "none" for a run of rules
  rejects,            \* the commands the hub answers with an error in this run
  ran                 \* the continuations of compiled conditions that have run (history)

vars ==
  <<conditions, condition_deps, tracked_devices, latest_attributes, subscriptions,
    device_value, subconditions, timers, ttasks, clocks, ctasks, installed_rules,
    rules_file, hub, now, startClock, tasks, requested, enabled, step, riseTime,
    closures, scenes, script, rejects, ran, lastDay, scenes_file, logged>>

\* datetime.now(), in seconds since midnight of the day the run started
Wall == startClock + now

\* ------------------------------------------------------ condition kinds
\* DeviceStateCondition._cast_value: to the type of the model's value
CastValue(c, v) ==
  IF Cond[c].vtype = "int" THEN ParseInt(v) ELSE v

\* DeviceStateCondition.evaluate
EvaluateDevice(c, dv) ==
  LET v == Cond[c].value  op == Cond[c].operator IN
  CASE op = "="  -> dv = v
    [] op = "!=" -> dv # v
    [] op = ">"  -> dv > v
    [] op = ">=" -> dv >= v
    [] op = "<"  -> dv < v
    [] op = "<=" -> dv <= v

\* BooleanStateCondition.evaluate over the cached child truths
EvaluateBoolean(c, cached) ==
  LET op == Cond[c].operator  subs == Cond[c].conditions IN
  CASE op = "and" -> \A i \in 1..Len(subs) : cached[subs[i]]
    [] op = "or"  -> \E i \in 1..Len(subs) : cached[subs[i]]
    [] op = "not" -> ~cached[subs[1]]

\* datetime.now().replace(second=0, microsecond=0).time(), in minutes after midnight
NowMinute == (Wall \div SecondsPerMinute) % (HoursPerDay * MinutesPerHour)

\* TimeOfDayStateCondition.evaluate
EvaluateTimeOfDay(c) ==
  LET model_time == Cond[c].hour * MinutesPerHour + Cond[c].minute
      op == Cond[c].operator IN
  CASE op = "is"     -> NowMinute = model_time
    [] op = "before" -> NowMinute < model_time
    [] op = "after"  -> NowMinute >= model_time

\* Condition.evaluate of the object c, given the objects' fields in m
Evaluate(m, c) ==
  CASE Cond[c].kind = "device"      -> EvaluateDevice(c, m.device_value[c])
    [] Cond[c].kind = "boolean"     -> EvaluateBoolean(c, m.subconditions[c])
    [] Cond[c].kind = "time_of_day" -> EvaluateTimeOfDay(c)
    [] Cond[c].kind = "true"        -> TRUE

\* TimeOfDayStateCondition.__init__: check_times, in minutes after midnight;
\* Condition.check_times ([]) for the other kinds
CheckTimes(c) ==
  IF Cond[c].kind # "time_of_day" THEN <<>>
  ELSE LET h == Cond[c].hour  mi == Cond[c].minute
           first == <<h * MinutesPerHour + mi>>
           next_check == IF mi = LastMinute
                         THEN ((h + 1) % HoursPerDay) * MinutesPerHour
                         ELSE h * MinutesPerHour + mi + 1
       IN IF Cond[c].operator = "is" THEN first \o <<next_check>> ELSE first

\* Condition.devices: the (device, attribute) pairs the object observes
DevicesOf(c) ==
  IF Cond[c].kind = "device" THEN {<<Cond[c].device_id, Cond[c].attribute>>} ELSE {}

\* initialize() of the object c: the fields it sets
InitializeFields(m, c, attrs, ics) ==
  CASE Cond[c].kind = "device" ->
         [m EXCEPT !.device_value = Put(@, c, CastValue(c, attrs))]
    [] Cond[c].kind = "boolean" ->
         [m EXCEPT !.subconditions[c] =
            [s \in DOMAIN @ |-> IF s \in DOMAIN ics THEN ics[s] ELSE @[s]]]
    [] OTHER -> m

\* initialize() of the object c: the truth it returns.  Condition.initialize
\* returns False and TimeOfDayStateCondition does not override it.
InitializeResult(m, c) ==
  CASE Cond[c].kind = "device"      -> Evaluate(m, c)
    [] Cond[c].kind = "boolean"     -> Evaluate(m, c)
    [] Cond[c].kind = "time_of_day" -> FALSE
    [] Cond[c].kind = "true"        -> TRUE

\* ------------------------------------------------------- timer service
DurKey(c) == <<"condition_dur", c>>

ToKey(c) == <<"condition_to", c>>

FreshTid(m) == CHOOSE i \in 0..Cardinality(DOMAIN m.ttasks) : i \notin DOMAIN m.ttasks

\* whether a timer started under key is still to fire: its task was created
\* and neither cancelled nor past its sleep
PendingUnder(m, key) ==
  \E tid \in DOMAIN m.ttasks :
    m.ttasks[tid].key = key /\ m.ttasks[tid].st \in {"new", "sleeping"}

\* TimerService.cancel_timer.  task.cancel() of a task that has not run yet
\* drops it; of a sleeping task it is delivered when the loop next runs the
\* task (see LoopTurn); of the task that is running the callback it has no
\* effect before the callback's next suspension.
CancelTimer(m, key) ==
  IF key \notin DOMAIN m.timers
  THEN [m EXCEPT !.cancels = Append(@, [key |-> key, returned |-> FALSE, fired |-> FALSE,
                                         pending |-> PendingUnder(m, key)])]
  ELSE LET tid == m.timers[key]
           tt == IF tid \notin DOMAIN m.ttasks THEN m.ttasks
                 ELSE IF m.ttasks[tid].st = "new" THEN Del(m.ttasks, tid)
                 ELSE IF m.ttasks[tid].st = "sleeping"
                      THEN [m.ttasks EXCEPT ![tid].st = "cancelled"]
                 ELSE m.ttasks
       IN [m EXCEPT !.ttasks = tt, !.timers = Del(@, key),
                    !.cancels = Append(@, [key |-> key, returned |-> TRUE,
                                           fired |-> tid \in DOMAIN m.ttasks
                                                     /\ m.ttasks[tid].st = "running",
                                           pending |-> PendingUnder(m, key)])]

\* start_timer once a live timer of the same id is cancelled: the new task
StartTimerTask(m, key, duration) ==
  [m EXCEPT !.ttasks = Put(@, FreshTid(m), [key |-> key, due |-> now + duration, st |-> "new"]),
            !.timers = Put(@, key, FreshTid(m))]

\* TimerService.start_timer
StartTimer(m, key, duration) ==
  StartTimerTask(IF key \in DOMAIN m.timers THEN CancelTimer(m, key) ELSE m, key, duration)

\* timer_task's finally block: its own id leaves the registry, whoever holds it
TimerFinally(m, tid) ==
  LET key == m.ttasks[tid].key IN
  [m EXCEPT !.timers = IF key \in DOMAIN @ THEN Del(@, key) ELSE @,
            !.ttasks = Del(@, tid)]

\* What the event loop runs once the current coroutine yields: the cancelled
\* timer tasks get their CancelledError (and run finally), the new ones start
\* to sleep.
LoopTurn(m) ==
  LET gone == {tid \in DOMAIN m.ttasks : m.ttasks[tid].st = "cancelled"}
      keys == {m.ttasks[tid].key : tid \in gone}
  IN [m EXCEPT !.timers = [k \in (DOMAIN @) \ keys |-> @[k]],
               !.ttasks = [tid \in (DOMAIN @) \ gone |->
                             IF @[tid].st = "new" THEN [@[tid] EXCEPT !.st = "sleeping"]
                             ELSE @[tid]]]

\* ------------------------------------------------------- clock service
ClockId(c, t) == <<c, t>>

\* clock_task: the next trigger after (or at) the wall clock w
NextTrigger(t, w) ==
  LET today == (w \div SecondsPerDay) * SecondsPerDay + t * SecondsPerMinute
  IN IF today < w THEN today + SecondsPerDay ELSE today

\* clock_task, line 45: now.date().replace(day=now.day + 1) is evaluated when
\* today's trigger has passed, and raises ValueError on the last day of a month
ReplaceDayFails(t, w) ==
  lastDay /\ (w \div SecondsPerDay) * SecondsPerDay + t * SecondsPerMinute < w

\* clock_task from the top of its loop to its sleep, at the wall clock w: the
\* ValueError ends the task, and nothing removes its entry from the registry
ClockTaskArm(m, id, w) ==
  IF ReplaceDayFails(id[2], w)
  THEN [m EXCEPT !.ctasks = IF id \in DOMAIN @ THEN Del(@, id) ELSE @]
  ELSE [m EXCEPT !.ctasks = Put(@, id, NextTrigger(id[2], w))]

\* ClockService.start_clock
StartClock(m, id) ==
  IF id \in m.clocks THEN [m EXCEPT !.exc = "ValueError"]
  ELSE ClockTaskArm([m EXCEPT !.clocks = @ \cup {id}], id, Wall)

\* ClockService.cancel_clock
CancelClock(m, id) ==
  IF id \notin m.clocks THEN m
  ELSE [m EXCEPT !.clocks = @ \ {id},
                 !.ctasks = IF id \in DOMAIN @ THEN Del(@, id) ELSE @]

RECURSIVE StartClocks(_, _, _)
\* add_condition's loop over condition.check_times
StartClocks(m, c, times) ==
  IF m.exc # NoExc \/ times = <<>> THEN m
  ELSE StartClocks(StartClock(m, ClockId(c, Head(times))), c, Tail(times))

RECURSIVE CancelClocks(_, _, _)
\* remove_condition's loop over condition.check_times
CancelClocks(m, c, times) ==
  IF times = <<>> THEN m
  ELSE CancelClocks(CancelClock(m, ClockId(c, Head(times))), c, Tail(times))

\* --------------------------------------------------- hub subscriptions
\* HubitatClient.subscribe: one callback per device, the last one wins
Subscribe(m, d, attrs) == [m EXCEPT !.subscriptions = Put(@, d, attrs)]

\* HubitatClient.unsubscribe: del self._subscriptions[device_id]
Unsubscribe(m, d) ==
  IF d \notin DOMAIN m.subscriptions THEN [m EXCEPT !.exc = "KeyError"]
  ELSE [m EXCEPT !.subscriptions = Del(@, d)]

\* -------------------------------------------------- remove_condition
\* remove_condition's device loop, lines 205-208: the device's empty dicts go
UntrackPrune(m, d) ==
  [m EXCEPT !.tracked_devices = IF DOMAIN @[d] = {} THEN Del(@, d) ELSE @,
            !.latest_attributes = IF DOMAIN @[d] = {} THEN Del(@, d) ELSE @]

\* remove_condition's device loop, lines 203-204, after unsubscribe returned
UntrackCache(m, d, a) ==
  IF m.exc # NoExc THEN m
  ELSE IF d \notin DOMAIN m.latest_attributes \/ a \notin DOMAIN m.latest_attributes[d]
       THEN [m EXCEPT !.tracked_devices[d] = Del(@, a), !.exc = "KeyError"]
       ELSE UntrackPrune([m EXCEPT !.tracked_devices[d] = Del(@, a),
                                   !.latest_attributes[d] = Del(@, a)], d)

\* remove_condition's device loop, lines 200-202: nobody observes the pair now
UntrackLast(m, d, a) ==
  IF m.tracked_devices[d][a] # {} THEN m ELSE UntrackCache(Unsubscribe(m, d), d, a)

\* remove_condition's device loop for the one pair a device condition observes
Untrack(m, c, d, a) ==
  IF d \notin DOMAIN m.tracked_devices \/ a \notin DOMAIN m.tracked_devices[d]
  THEN [m EXCEPT !.exc = "KeyError"]
  ELSE UntrackLast([m EXCEPT !.tracked_devices[d][a] = @ \ {c}], d, a)

\* remove_condition that leaves the timers and the clocks running
KeepTimers(m, c) == m

\* remove_condition, lines 185-189: its timers and clocks are cancelled
RemoveTimers(m, c) ==
  CancelClocks(CancelTimer(CancelTimer(m, ToKey(c)), DurKey(c)), c, CheckTimes(c))

\* remove_condition that leaves the truth map and the device tracking alone
KeepTracking(m, c) == m

\* remove_condition, lines 192-208: the truth map and the device tracking
RemoveTracking(m, c) ==
  IF Cond[c].kind = "device"
  THEN Untrack([m EXCEPT !.conditions = IF c \in DOMAIN @ THEN Del(@, c) ELSE @],
               c, Cond[c].device_id, Cond[c].attribute)
  ELSE [m EXCEPT !.conditions = IF c \in DOMAIN @ THEN Del(@, c) ELSE @]

RECURSIVE RemoveCondition(_, _)
RECURSIVE RemoveSubs(_, _)
\* remove_condition, lines 211-215: its dependency entry, then its children
RemoveDeps(m, c) ==
  IF m.exc # NoExc THEN m
  ELSE RemoveSubs([m EXCEPT !.condition_deps = IF c \in DOMAIN @ THEN Del(@, c) ELSE @],
                  Cond[c].conditions)

\* RuleProcessManager.remove_condition
RemoveCondition(m, c) == RemoveDeps(RemoveTracking(RemoveTimers(m, c), c), c)

\* remove_condition's loop over condition.conditions
RemoveSubs(m, subs) ==
  IF m.exc # NoExc \/ subs = <<>> THEN m
  ELSE RemoveSubs(IF Head(subs) \in DOMAIN m.conditions
                  THEN RemoveCondition(m, Head(subs)) ELSE m, Tail(subs))

\* ----------------------------------------------------- add_condition
\* One activation of add_condition: the condition, where it stands, the index
\* of the sub-condition _initialize_sub_conditions is at, init_cond_states and
\* new_device_attrs.
Frame(c) == [cond |-> c, pc |-> "track", idx |-> 1, ics |-> EmptyFn, new |-> {}]

Top(m) == m.stack[Len(m.stack)]

SetTop(m, f) == [m EXCEPT !.stack[Len(m.stack)] = f]

\* _track_device_attributes.  new_device_attrs gets an entry for a device only
\* when the device is new to the tracking map: an untracked attribute of a
\* tracked device raises KeyError, after its empty set was put in the map.
TrackDeviceAttributes(m, c) ==
  IF Cond[c].kind # "device" THEN [m |-> m, new |-> {}]
  ELSE LET d == Cond[c].device_id
           a == Cond[c].attribute
           devNew == d \notin DOMAIN m.tracked_devices
           t1 == IF devNew THEN Put(m.tracked_devices, d, EmptyFn) ELSE m.tracked_devices
           attrNew == a \notin DOMAIN t1[d]
           t2 == IF attrNew THEN [t1 EXCEPT ![d] = Put(@, a, {})] ELSE t1
       IN IF attrNew /\ ~devNew
          THEN [m |-> [m EXCEPT !.tracked_devices = t2, !.exc = "KeyError"], new |-> {}]
          ELSE [m |-> [m EXCEPT !.tracked_devices = [t2 EXCEPT ![d][a] = @ \cup {c}]],
                new |-> IF attrNew THEN {<<d, a>>} ELSE {}]

\* _fetch_new_attributes up to its await: the device's cache dict exists
FetchBegin(m, new) ==
  [m EXCEPT !.latest_attributes =
     [d \in (DOMAIN @) \cup {p[1] : p \in new} |-> IF d \in DOMAIN @ THEN @[d] ELSE EmptyFn]]

\* _fetch_new_attributes after get_attribute returned the hub's value
FetchEnd(m, new) ==
  IF \E p \in new : p[1] \notin DOMAIN m.latest_attributes
  THEN [m EXCEPT !.exc = "KeyError"]
  ELSE [m EXCEPT !.latest_attributes =
          [d \in DOMAIN @ |->
             [a \in (DOMAIN @[d]) \cup {p[2] : p \in {q \in new : q[1] = d}} |->
                IF <<d, a>> \in new THEN hub[<<d, a>>] ELSE @[d][a]]]]

\* _prepare_init_attributes: whether every observed attribute is in the cache
InitAttrsReady(m, c) ==
  \A p \in DevicesOf(c) :
    p[1] \in DOMAIN m.latest_attributes /\ p[2] \in DOMAIN m.latest_attributes[p[1]]

\* add_condition, lines 137-149: the timeout timer or the clocks
StartTimeoutOnAdd(m, c) ==
  IF Cond[c].timeout # NoDuration /\ Cond[c].tact # "none"
  THEN StartTimer(m, ToKey(c), Cond[c].timeout)
  ELSE StartClocks(m, c, CheckTimes(c))

\* add_condition, lines 152-157: the duration timer of a condition true at once
StartDurationOnAdd(m, c) ==
  IF m.exc # NoExc THEN m
  ELSE IF m.conditions[c] /\ Cond[c].duration # NoDuration
       THEN StartTimer(m, DurKey(c), Cond[c].duration) ELSE m

\* add_condition, lines 133-134: the devices new to the tracking map (one at
\* most, a condition observes one pair) are subscribed
SubscribeNew(m, new) ==
  IF new = {} THEN m
  ELSE Subscribe(m, (CHOOSE p \in new : TRUE)[1], {p[2] : p \in new})

\* add_condition, lines 130-134: the truth is recorded, the new devices subscribed
AddRecord(m, c, state, new) ==
  [SubscribeNew(m, new) EXCEPT !.conditions = Put(@, c, state),
                               !.riseTime[c] = IF state THEN now ELSE -1]

\* add_condition that invokes the action of a condition it found true
AddReturnFiring(m, c) ==
  IF m.exc # NoExc THEN m
  ELSE [m EXCEPT !.stack = SubSeq(@, 1, Len(@) - 1), !.added = @ \cup {c},
                 !.invoked = IF m.conditions[c] /\ Cond[c].act # "none"
                             THEN Append(@, c) ELSE @]

\* add_condition returns to its caller's frame
AddReturn(m, c) ==
  IF m.exc # NoExc THEN m
  ELSE [m EXCEPT !.stack = SubSeq(@, 1, Len(@) - 1), !.added = @ \cup {c}]

\* add_condition, lines 129-157, once initialize() has set the object's fields
AddInstall(m, c, new) ==
  AddReturn(StartDurationOnAdd(StartTimeoutOnAdd(
              AddRecord(m, c, InitializeResult(m, c), new), c), c), c)

\* _prepare_init_attributes: the cached value handed to initialize()
InitAttrs(m, c) ==
  IF Cond[c].kind = "device"
  THEN m.latest_attributes[Cond[c].device_id][Cond[c].attribute] ELSE ""

\* add_condition from _prepare_init_attributes to its end
FinishAdd(m) ==
  IF ~InitAttrsReady(m, Top(m).cond) THEN [m EXCEPT !.exc = "KeyError"]
  ELSE AddInstall(InitializeFields(m, Top(m).cond, InitAttrs(m, Top(m).cond), Top(m).ics),
                  Top(m).cond, Top(m).new)

\* add_condition after _track_device_attributes returned r: to the fetch of
\* the new attributes, or past it when there is none
AfterTrack(r, f) ==
  IF r.m.exc # NoExc THEN r.m
  ELSE IF r.new # {}
       THEN SetTop(FetchBegin(r.m, r.new), [f EXCEPT !.pc = "fetch", !.new = r.new])
       ELSE SetTop(r.m, [f EXCEPT !.pc = "subs"])

\* _initialize_sub_conditions at the sub-condition s of c
InitializeSub(m, f, c, s) ==
  IF s \notin DOMAIN m.conditions
  THEN [m EXCEPT !.condition_deps =
                    Put(@, s, (IF s \in DOMAIN @ THEN @[s] ELSE {}) \cup {c}),
                 !.stack = Append(SubSeq(@, 1, Len(@) - 1), [f EXCEPT !.pc = "ret"])
                             \o <<Frame(s)>>]
  ELSE SetTop(m, [f EXCEPT !.ics = Put(@, s, m.conditions[s]), !.idx = @ + 1])

\* _initialize_sub_conditions when the add_condition of s has returned
AfterSub(m, f, s) ==
  IF s \notin DOMAIN m.conditions THEN [m EXCEPT !.exc = "KeyError"]
  ELSE SetTop(m, [f EXCEPT !.ics = Put(@, s, m.conditions[s]),
                           !.idx = @ + 1, !.pc = "subs"])

\* add_condition: the stretch of code the innermost activation runs next
AddStep(m) ==
  CASE Top(m).pc = "track" -> AfterTrack(TrackDeviceAttributes(m, Top(m).cond), Top(m))
    [] Top(m).pc = "subs" ->
         IF Top(m).idx > Len(Cond[Top(m).cond].conditions) THEN FinishAdd(m)
         ELSE InitializeSub(m, Top(m), Top(m).cond, Cond[Top(m).cond].conditions[Top(m).idx])
    [] Top(m).pc = "ret" ->
         AfterSub(m, Top(m), Cond[Top(m).cond].conditions[Top(m).idx])

\* ------------------------------------------------------- propagation
\* BooleanStateCondition.on_condition_event of every parent of child
NotifyParents(m, child, parents, new_state) ==
  [m EXCEPT !.subconditions =
     [p \in DOMAIN @ |->
        IF p \in parents /\ child \in DOMAIN @[p]
        THEN [@[p] EXCEPT ![child] = new_state] ELSE @[p]]]

\* the dependants of a condition: self._condition_deps.get(id, {})
DepsOf(m, c) == IF c \in DOMAIN m.condition_deps THEN m.condition_deps[c] ELSE {}

RECURSIVE PropagateStateUpdate(_, _, _)
\* _propagate_state_update, lines 276-283, for the popped condition
PropagateOne(m, current, new_state, work, touched) ==
  IF \E p \in DepsOf(m, current) : p \notin DOMAIN m.conditions
  THEN [m EXCEPT !.conditions[current] = new_state, !.exc = "KeyError"]
  ELSE PropagateStateUpdate(
         NotifyParents([m EXCEPT !.conditions[current] = new_state],
                       current, DepsOf(m, current), new_state),
         work \o (CHOOSE q \in Orders(DepsOf(m, current)) : TRUE),
         touched \cup {current})

\* _propagate_state_update: work is the deque, touched the ids popped so far.
\* self._conditions[...] raises KeyError for an id that is not installed.
PropagateStateUpdate(m, work, touched) ==
  IF work = <<>> THEN [m EXCEPT !.touched = touched]
  ELSE IF Head(work) \notin DOMAIN m.conditions THEN [m EXCEPT !.exc = "KeyError"]
  ELSE PropagateOne(m, Head(work), Evaluate(m, Head(work)), Tail(work), touched)

\* _process_condition_change after the propagation, up to its loop: the
\* touched conditions that have an action, in the order the loop takes them
ProcessTouched(m, previous_state, ord) ==
  IF m.exc # NoExc THEN m
  ELSE [m EXCEPT
          !.propagated = TRUE,
          !.rose = {c \in m.touched : ~previous_state[c] /\ m.conditions[c]},
          !.fell = {c \in m.touched : previous_state[c] /\ ~m.conditions[c]},
          !.riseTime = [c \in DOMAIN @ |->
                          IF c \in m.touched /\ ~previous_state[c] /\ m.conditions[c]
                          THEN now
                          ELSE IF c \in m.touched /\ ~m.conditions[c] THEN -1 ELSE @[c]],
          !.cont = <<[k |-> "loop", cond |-> "", rule |-> "", prev |-> previous_state,
                      todo |-> FilterBy(ord, {c \in m.touched : Cond[c].act # "none"}),
                      key |-> <<>>]>> \o @]

\* _process_condition_change up to its loop: the snapshot and the propagation
ProcessStart(m, impacted, ord) ==
  ProcessTouched(PropagateStateUpdate(m, impacted, {}), m.conditions, ord)

\* a continuation item: what a caller still has to run once its callee returns
Item(k, c) == [k |-> k, cond |-> c, rule |-> "", prev |-> EmptyFn, todo |-> <<>>, key |-> <<>>]

\* the call _process_condition_change(impacted); ord is the order in which its
\* loop will meet the conditions (the iteration order of a Python set)
ProcessItem(impacted, ord) == [Item("process", "") EXCEPT !.todo = impacted, !.key = ord]

\* `await x` if x were awaitable: the coroutine goes on
AwaitNoneReturns(m) == m

\* `await x` where x is the None a plain function returned:
\* TypeError: object NoneType can't be used in 'await' expression
AwaitNone(m) == [m EXCEPT !.exc = "TypeError"]

\* HubitatClient.send_command that never raises: the answer is only recorded
SendCommandUnchecked(m, cmd) ==
  [m EXCEPT !.sent = Append(@, [command |-> cmd, ok |-> cmd \notin rejects])]

\* HubitatClient.send_command: a blocking HTTP request; a transport error or a
\* status other than 200 raises Exception
SendCommand(m, cmd) ==
  IF cmd \in rejects
  THEN [m EXCEPT !.sent = Append(@, [command |-> cmd, ok |-> FALSE]), !.exc = "Exception"]
  ELSE [m EXCEPT !.sent = Append(@, [command |-> cmd, ok |-> TRUE])]

\* the call invoke_actions(actions, rule_trigger); "" is rule_trigger = None
InvokeItem(actions, trigger) == [Item("invoke", trigger) EXCEPT !.todo = actions]

\* what _handle_if_then_else still has to run once add_condition has returned
IteItem(k, a, rest, trigger, state) ==
  [k |-> k, action |-> a, todo |-> rest, cond |-> trigger, state |-> state]

\* RuleManager._handle_device_control
HandleDeviceControl(m, a, rest, trigger) ==
  [SendCommand(m, a.command) EXCEPT !.cont = <<InvokeItem(rest, trigger)>> \o @]

\* RuleManager._handle_if_then_else up to the await of add_condition
HandleIfThenElse(m, a, rest, trigger) ==
  [m EXCEPT !.stack = <<Frame(a.cond)>>,
            !.cont = <<IteItem("ite_check", a, rest, trigger, FALSE)>> \o @]

\* _handle_if_then_else, lines 275-276: check_condition_state, then
\* `await self._process.remove_condition(condition)`
IteCheck(m, it) ==
  IF it.action.cond \notin DOMAIN m.conditions THEN [m EXCEPT !.exc = "KeyError"]
  ELSE [RemoveCondition(m, it.action.cond) EXCEPT
          !.cont = <<Item("await_none", it.action.cond),
                     IteItem("ite_branch", it.action, it.todo, it.cond,
                             m.conditions[it.action.cond])>> \o @]

\* _handle_if_then_else, lines 278-287: the branch
IteBranch(m, it) ==
  [m EXCEPT !.cont =
     <<InvokeItem(IF it.state THEN it.action.then_actions \o it.todo
                  ELSE IF it.action.has_else THEN it.action.else_actions \o it.todo
                  ELSE it.todo, it.cond)>> \o @]

\* RuleManager._handle_until: timeout_actions = None makes `None + list` raise
HandleUntil(m, a, rest, trigger) ==
  IF ~a.has_timeout_actions THEN [m EXCEPT !.exc = "TypeError"]
  ELSE [m EXCEPT !.closures = Put(@, a.cond,
                    [action |-> a.until_actions \o rest,
                     timeout_action |-> a.timeout_actions \o rest,
                     exit_on_timeout |-> FALSE, rule_trigger |-> trigger]),
                 !.stack = <<Frame(a.cond)>>]

\* RuleManager._handle_wait
HandleWait(m, a, rest, trigger) ==
  [m EXCEPT !.closures = Put(@, a.cond,
               [action |-> rest, timeout_action |-> rest,
                exit_on_timeout |-> a.end_on_timeout, rule_trigger |-> trigger]),
            !.stack = <<Frame(a.cond)>>]

\* RuleManager.invoke_actions: the first action's handler gets the rest
InvokeActions(m, actions, trigger) ==
  IF actions = <<>> THEN m
  ELSE CASE Head(actions).kind = "device" ->
              HandleDeviceControl(m, Head(actions), Tail(actions), trigger)
         [] Head(actions).kind = "if_then_else" ->
              HandleIfThenElse(m, Head(actions), Tail(actions), trigger)
         [] Head(actions).kind = "until" ->
              HandleUntil(m, Head(actions), Tail(actions), trigger)
         [] Head(actions).kind = "wait" ->
              HandleWait(m, Head(actions), Tail(actions), trigger)
         [] Head(actions).kind = "exit" ->
              IF trigger # "" THEN [m EXCEPT !.stack = <<Frame(trigger)>>] ELSE m

\* RuleManager._on_condition_triggered.inner, the action of a compiled condition
TriggeredBody(m, c) ==
  <<Item("remove", c), Item("await_none", c),
    InvokeItem(m.closures[c].action, m.closures[c].rule_trigger)>>

\* RuleManager._on_condition_timeout.inner, its timeout_action
TimeoutBody(m, c) ==
  <<Item("remove", c), Item("await_none", c),
    InvokeItem(IF m.closures[c].exit_on_timeout THEN <<Exit>>
               ELSE m.closures[c].timeout_action, m.closures[c].rule_trigger)>>

\* RuleProcessManager._on_condition_timeout.inner
OnConditionTimeout(m, c) ==
  IF c \in DOMAIN m.conditions /\ Cond[c].tact # "none"
  THEN [m EXCEPT !.timedout = Append(@, c), !.ran = Append(@, <<c, "timeout">>),
                 !.cont = TimeoutBody(m, c) \o @]
  ELSE m

\* the body of a condition's action.  RuleManager._on_rule_triggered.action:
\* await cm.remove_condition(trigger); await self.invoke_actions(actions + [Exit], trigger)
ActionBody(c) ==
  CASE Cond[c].act = "rule" ->
         <<Item("remove", c), Item("await_none", c),
           InvokeItem(RuleActions[CHOOSE r \in RuleNames : Rule[r].trigger = c] \o <<Exit>>, c)>>

\* `await condition.action(condition_manager)`: the action's body is entered
InvokeConditionAction(m, c) ==
  IF Cond[c].act = "triggered"
  THEN [m EXCEPT !.invoked = Append(@, c), !.ran = Append(@, <<c, "trigger">>),
                 !.cont = TriggeredBody(m, c) \o @]
  ELSE [m EXCEPT !.invoked = Append(@, c), !.cont = ActionBody(c) \o @]

\* Condition.trigger_always: a read-only property no condition kind overrides
TriggerAlways(c) == FALSE

\* _process_condition_change, lines 316-326: the duration timer
LoopDuration(m, c, curr, prev) ==
  IF Cond[c].duration = NoDuration THEN m
  ELSE IF curr /\ ~prev THEN StartTimer(m, DurKey(c), Cond[c].duration)
  ELSE IF ~curr /\ prev THEN CancelTimer(m, DurKey(c))
  ELSE m

\* _process_condition_change, lines 329-334: the trigger
LoopTrigger(m, c, curr, prev, rest) ==
  IF (curr /\ ~prev) \/ (curr /\ TriggerAlways(c))
  THEN [CancelTimer(CancelTimer(m, DurKey(c)), ToKey(c))
          EXCEPT !.cont = <<Item("action", c), rest>> \o @]
  ELSE [m EXCEPT !.cont = <<rest>> \o @]

\* one pass of the loop of _process_condition_change over the touched
\* conditions that have an action
ProcessLoop(m, it) ==
  IF it.todo = <<>> THEN m
  ELSE IF Head(it.todo) \notin DOMAIN m.conditions \/ Head(it.todo) \notin DOMAIN it.prev
       THEN [m EXCEPT !.exc = "KeyError"]
       ELSE LoopTrigger(LoopDuration(m, Head(it.todo), m.conditions[Head(it.todo)],
                                     it.prev[Head(it.todo)]),
                        Head(it.todo), m.conditions[Head(it.todo)], it.prev[Head(it.todo)],
                        [it EXCEPT !.todo = Tail(@)])

\* ---------------------------------------------------------- coroutines
\* _Scene.__init__: BooleanCondition(operator="not", conditions=[self._set_trigger])
\* is handed a condition object where the model wants condition models, and
\* validation fails (pydantic's ValidationError is a ValueError)
SceneInit(m, s) == [m EXCEPT !.exc = "ValueError"]

\* create_scene, line 119: trigger_always is a property without a setter
SetTriggerAlways(m) ==
  IF m.exc # NoExc THEN m ELSE [m EXCEPT !.exc = "AttributeError"]

\* SceneManager.create_scene(scene) up to line 119
CreateSceneStart(m, s) ==
  IF s \in DOMAIN m.scenes THEN [m EXCEPT !.exc = "ValueError"]
  ELSE SetTriggerAlways(SceneInit(m, s))

\* install_rule(rule) called by install_saved_rules, up to the await of
\* add_condition
InstallSaved(m, r) ==
  IF r \in DOMAIN m.installed_rules THEN [m EXCEPT !.exc = "ValueError"]
  ELSE [m EXCEPT !.stack = <<Frame(Rule[r].trigger)>>,
                 !.cont = <<[Item("install_rule", Rule[r].trigger) EXCEPT !.rule = r]>> \o @]

\* what a caller runs when the call it was waiting for has returned
ExecItem(m, it) ==
  CASE it.k = "install_rule" ->
         \* install_rule after add_condition: index the rule, rewrite the file
         LET idx == Put(m.installed_rules, it.rule, it.cond) IN
         [m EXCEPT !.installed_rules = idx, !.rules_file = DOMAIN idx]
    [] it.k = "uninstall_rule" ->
         \* uninstall_rule after its await: drop the rule, rewrite the file
         LET idx == Del(m.installed_rules, it.rule) IN
         [m EXCEPT !.installed_rules = idx, !.rules_file = DOMAIN idx]
    [] it.k = "delete_scene" ->
         \* delete_scene, lines 138-139: drop the scene, rewrite the file
         LET idx == Del(m.scenes, it.rule) IN
         [m EXCEPT !.scenes = idx, !.scenes_file = DOMAIN idx]
    [] it.k = "process" -> ProcessStart(m, it.todo, it.key)
    [] it.k = "loop" -> ProcessLoop(m, it)
    [] it.k = "action" -> InvokeConditionAction(m, it.cond)
    [] it.k = "invoke" -> InvokeActions(m, it.todo, it.cond)
    [] it.k = "ite_check" -> IteCheck(m, it)
    [] it.k = "ite_branch" -> IteBranch(m, it)
    [] it.k = "on_timeout" -> OnConditionTimeout(m, it.cond)
    [] it.k = "remove" -> RemoveCondition(m, it.cond)
    [] it.k = "except" -> m
    [] it.k = "saved_rule" -> InstallSaved(m, it.rule)
    [] it.k = "saved_scene" -> CreateSceneStart(m, it.rule)
    [] it.k = "await_none" -> AwaitNone(m)
    [] it.k = "exit" ->
         \* invoke_actions([_ExitAction()], trigger): add_condition(rule_trigger)
         [m EXCEPT !.stack = <<Frame(it.cond)>>]
    [] it.k = "on_duration" ->
         \* _on_condition_duration.inner
         IF it.cond \in DOMAIN m.conditions /\ Cond[it.cond].act # "none"
         THEN [m EXCEPT !.cont = <<Item("action", it.cond)>> \o @] ELSE m
    [] it.k = "on_check_time" ->
         \* _on_condition_check_time.inner
         IF it.cond \in DOMAIN m.conditions
         THEN [m EXCEPT !.cont = <<ProcessItem(<<it.cond>>, it.todo)>> \o @]
         ELSE m
    [] it.k = "timer_finally" -> TimerFinally(m, it.key)
    [] it.k = "clock_rearm" ->
         \* clock_task loops: the same time of day, after this moment; a task
         \* cancel_clock has cancelled gets CancelledError at the sleep and returns
         IF it.key \in DOMAIN m.ctasks THEN ClockTaskArm(m, it.key, Wall + 1) ELSE m

\* an except clause that lets the exception go: the loop is abandoned
Reraise(m, it) == [m EXCEPT !.stack = <<>>, !.cont = <<>>]

\* install_saved_rules / install_saved_scenes, `except Exception as e: print(...)`:
\* the exception is logged and the loop goes on
Catch(m, it) ==
  [m EXCEPT !.exc = NoExc, !.stack = <<>>, !.logged = Append(@, <<it.rule, m.exc>>)]

RECURSIVE Unwind(_)
\* An exception leaves every activation of the coroutine up to the innermost
\* try that catches it: timer_task runs its finally block, clock_task ends (its
\* registry entry stays), the rest is dropped.
Unwind(m) ==
  IF m.cont = <<>> THEN [m EXCEPT !.stack = <<>>]
  ELSE LET it == Head(m.cont)
           m1 == [m EXCEPT !.cont = Tail(@)]
       IN IF it.k = "except" THEN Catch(m1, it)
          ELSE Unwind(CASE it.k = "timer_finally" -> TimerFinally(m1, it.key)
                        [] it.k = "clock_rearm" ->
                             [m1 EXCEPT !.ctasks = IF it.key \in DOMAIN @
                                                   THEN Del(@, it.key) ELSE @]
                        [] OTHER -> m1)

RECURSIVE Run(_)
\* after an exception: the coroutine goes on behind the try that caught it
Resume(m) == IF m.exc = NoExc THEN Run(m) ELSE m

\* the coroutine runs until it awaits the hub (the innermost add_condition
\* stands at "fetch"), ends, or raises
Run(m) ==
  IF m.exc # NoExc THEN Resume(Unwind(m))
  ELSE IF m.stack # <<>>
       THEN IF Top(m).pc = "fetch" THEN m ELSE Run(AddStep(m))
  ELSE IF m.cont # <<>>
       THEN Run(ExecItem([m EXCEPT !.cont = Tail(@)], Head(m.cont)))
  ELSE m

\* ------------------------------------------------------------ actions
\* the manager's and the services' fields, as the running coroutine sees them
Mgr ==
  [conditions |-> conditions, condition_deps |-> condition_deps,
   tracked_devices |-> tracked_devices, latest_attributes |-> latest_attributes,
   subscriptions |-> subscriptions, device_value |-> device_value,
   subconditions |-> subconditions, timers |-> timers, ttasks |-> ttasks,
   clocks |-> clocks, ctasks |-> ctasks, installed_rules |-> installed_rules,
   rules_file |-> rules_file, riseTime |-> riseTime,
   closures |-> closures, scenes |-> scenes, scenes_file |-> scenes_file, ran |-> ran,
   logged |-> logged,
   exc |-> NoExc, stack |-> <<>>, cont |-> <<>>, touched |-> {},
   invoked |-> <<>>, rose |-> {}, fell |-> {}, propagated |-> FALSE, added |-> {},
   sent |-> <<>>, timedout |-> <<>>, cancels |-> <<>>]

Idle == [kind |-> "tick", arg |-> "", exc |-> NoExc, invoked |-> <<>>, rose |-> {},
         fell |-> {}, propagated |-> FALSE, added |-> {}, sent |-> <<>>,
         timedout |-> <<>>, cancels |-> <<>>, caught |-> <<>>, suspended |-> FALSE]

\* the coroutine's effects become the program's state; a coroutine that awaits
\* the hub is kept with its activations
Commit(m, kind, resumed) ==
  /\ conditions' = m.conditions
  /\ condition_deps' = m.condition_deps
  /\ tracked_devices' = m.tracked_devices
  /\ latest_attributes' = m.latest_attributes
  /\ subscriptions' = m.subscriptions
  /\ device_value' = m.device_value
  /\ subconditions' = m.subconditions
  /\ timers' = m.timers
  /\ ttasks' = m.ttasks
  /\ clocks' = m.clocks
  /\ ctasks' = m.ctasks
  /\ installed_rules' = m.installed_rules
  /\ rules_file' = m.rules_file
  /\ riseTime' = m.riseTime
  /\ closures' = m.closures
  /\ scenes' = m.scenes
  /\ scenes_file' = m.scenes_file
  /\ logged' = m.logged
  /\ ran' = m.ran
  /\ tasks' = (tasks \ resumed) \cup
                (IF m.stack # <<>>
                 THEN {[kind |-> kind[1], arg |-> kind[2], stack |-> m.stack, cont |-> m.cont]}
                 ELSE {})
  /\ step' = [kind |-> kind[1], arg |-> kind[2], exc |-> m.exc, invoked |-> m.invoked,
               rose |-> m.rose, fell |-> m.fell, propagated |-> m.propagated,
               added |-> m.added, sent |-> m.sent, timedout |-> m.timedout,
               cancels |-> m.cancels,
               caught |-> SubSeq(m.logged, Len(logged) + 1, Len(m.logged)),
               suspended |-> m.stack # <<>>]

\* The coroutine `kind` (what it is and its argument) runs from m0 until it
\* yields, ends or raises; `resumed` are the suspended coroutines it was (none
\* for a new one).
Yield(m0, kind, resumed) == Commit(LoopTurn(Run(m0)), kind, resumed)

\* the conditions of the rules this run installs
RECURSIVE TreeOf(_)
TreeOf(c) == {c} \cup UNION {TreeOf(Cond[c].conditions[i]) : i \in 1..Len(Cond[c].conditions)}

\* the conditions the run's action list compiles
ScriptConds ==
  IF script \in ProgramNames
  THEN UNION {TreeOf(c) : c \in CondsOfActions(Program[script])} ELSE {}

\* the pairs the checks of the run's scene read
ScenePairs ==
  IF script \in SceneNames THEN {<<k[1], k[2]>> : k \in Scene[script].checks} ELSE {}

\* the conditions a caller of the process manager itself adds and removes: a
\* parent, and one of the parent's sub-conditions added on its own as well
ProcessConds == {"P", "S1"}

\* their trees, in a run that drives the process manager itself
ProcessTree == IF script = "process" THEN UNION {TreeOf(c) : c \in ProcessConds} ELSE {}

EnabledConds ==
  UNION {TreeOf(Rule[r].trigger) : r \in enabled} \cup ScriptConds \cup ProcessTree

\* install_rule, lines 117-118 left out: the rule is compiled and installed
\* whether or not its name is in the index
InstallUnchecked(r) ==
  [Mgr EXCEPT !.stack = <<Frame(Rule[r].trigger)>>,
              !.cont = <<[Item("install_rule", Rule[r].trigger) EXCEPT !.rule = r]>>]

\* install_rule up to the await of add_condition
InstallStart(r) ==
  IF r \in DOMAIN installed_rules
  THEN [Mgr EXCEPT !.exc = "ValueError"]
  ELSE [Mgr EXCEPT !.stack = <<Frame(Rule[r].trigger)>>,
                   !.cont = <<[Item("install_rule", Rule[r].trigger) EXCEPT !.rule = r]>>]

\* RuleManager.install_rule(rule), the first call for a name
InstallRule(r) ==
  /\ r \in enabled \ requested
  /\ requested' = requested \cup {r}
  /\ Yield(InstallStart(r), <<"install_rule", r>>, {})
  /\ UNCHANGED <<hub, now, startClock, lastDay, enabled, script, rejects>>

\* RuleManager.install_rule(rule) called again with a name that is in the index
InstallAgain(r) ==
  /\ r \in enabled /\ r \in DOMAIN installed_rules
  /\ Yield(InstallStart(r), <<"install_rule", r>>, {})
  /\ UNCHANGED <<hub, now, startClock, lastDay, enabled, requested, script, rejects>>

\* RuleManager.uninstall_rule(rule_name): the call itself
UninstallRuleRun(r) ==
  /\ r \in enabled
  /\ Yield(IF r \notin DOMAIN installed_rules THEN Mgr
            ELSE [Mgr EXCEPT !.cont = <<Item("remove", installed_rules[r]),
                                        Item("await_none", ""),
                                        [Item("uninstall_rule", "") EXCEPT !.rule = r]>>],
           <<"uninstall_rule", r>>, {})
  /\ UNCHANGED <<hub, now, startClock, lastDay, enabled, script, rejects>>

\* RuleManager.uninstall_rule(rule_name)
UninstallRule(r) == UninstallRuleRun(r) /\ UNCHANGED requested

\* ExecuteActionsTool.execute: invoke_actions(actions) with no rule trigger
ExecuteActions(p) ==
  /\ p = script /\ p \in ProgramNames /\ p \notin requested
  /\ requested' = requested \cup {p}
  /\ Yield([Mgr EXCEPT !.cont = <<InvokeItem(Program[p], "")>>], <<"execute_actions", p>>, {})
  /\ UNCHANGED <<hub, now, startClock, lastDay, enabled, script, rejects>>

\* SceneManager.create_scene(scene)
CreateScene(s) ==
  /\ s = script /\ s \in SceneNames /\ s \notin requested
  /\ requested' = requested \cup {s}
  /\ Yield(CreateSceneStart(Mgr, s), <<"create_scene", s>>, {})
  /\ UNCHANGED <<hub, now, startClock, lastDay, enabled, script, rejects>>

\* SceneManager.delete_scene(scene_name) up to its first suspension; both
\* remove_condition calls are awaited although the function returns None
DeleteSceneStart(s) ==
  IF s \notin DOMAIN scenes THEN [Mgr EXCEPT !.exc = "ValueError"]
  ELSE [Mgr EXCEPT !.cont = <<Item("remove", Scene[s].set_trigger), Item("await_none", ""),
                              Item("remove", Scene[s].unset_trigger), Item("await_none", ""),
                              [Item("delete_scene", "") EXCEPT !.rule = s]>>]

\* SceneManager.delete_scene(scene_name); the scene may be created again
DeleteScene(s) ==
  /\ s = script /\ s \in SceneNames
  /\ requested' = requested \ {s}
  /\ Yield(DeleteSceneStart(s), <<"delete_scene", s>>, {})
  /\ UNCHANGED <<hub, now, startClock, lastDay, enabled, script, rejects>>

\* _fetch_new_attributes returns to add_condition
AfterFetch(m) ==
  IF m.exc # NoExc THEN m ELSE SetTop(m, [Top(m) EXCEPT !.pc = "subs"])

\* the hub answers the get_attribute a suspended add_condition awaits
FetchReturn(t) ==
  /\ t \in tasks
  /\ Yield(AfterFetch(FetchEnd([Mgr EXCEPT !.stack = t.stack, !.cont = t.cont],
                                t.stack[Len(t.stack)].new)),
           <<t.kind, t.arg>>, {t})
  /\ UNCHANGED <<hub, now, startClock, lastDay, enabled, requested, script, rejects>>

\* the conditions whose action a propagation may have to invoke
Acting == {c \in DOMAIN conditions : Cond[c].act # "none"}

\* RuleProcessManager._on_device_event before _process_condition_change
OnDeviceEvent(m, d, a, v, impacted, ord) ==
  IF d \notin DOMAIN m.latest_attributes THEN [m EXCEPT !.exc = "KeyError"]
  ELSE LET m1 == [m EXCEPT !.latest_attributes[d] = Put(@, a, v)] IN
       IF d \notin DOMAIN m.tracked_devices \/ a \notin DOMAIN m.tracked_devices[d]
          \/ \E c \in m.tracked_devices[d][a] : c \notin DOMAIN m.conditions
       THEN [m1 EXCEPT !.exc = "KeyError"]
       ELSE [m1 EXCEPT !.device_value =
                         [c \in DOMAIN @ |-> IF c \in SeqRange(impacted)
                                             THEN CastValue(c, v) ELSE @[c]],
                       !.cont = <<ProcessItem(impacted, ord)>>]

\* A device changes an attribute and the hub posts the event:
\* HubitatClient.handle_device_event and the subscription closure
HubEvent(p, v) ==
  /\ p \in HubAttrs /\ p \in UNION {DevicesOf(c) : c \in EnabledConds} \cup ScenePairs
  /\ v \in HubValues[p] \ {hub[p]}
  /\ hub' = [hub EXCEPT ![p] = v]
  /\ IF p[1] \in DOMAIN subscriptions /\ p[2] \in subscriptions[p[1]]
     THEN LET ids == IF p[1] \in DOMAIN tracked_devices /\ p[2] \in DOMAIN tracked_devices[p[1]]
                     THEN tracked_devices[p[1]][p[2]] ELSE {}
          IN \E impacted \in Orders(ids), ord \in Orders(Acting) :
               Yield(OnDeviceEvent(Mgr, p[1], p[2], v, impacted, ord),
                     <<"device_event", "">>, {})
     ELSE Yield(Mgr, <<"unheard_event", "">>, {})
  /\ UNCHANGED <<now, startClock, lastDay, enabled, requested, script, rejects>>

\* aio.sleep of a timer task is over: timer_task calls the callback, then finally
TimerFire(tid) ==
  /\ tid \in DOMAIN ttasks
  /\ ttasks[tid].st = "sleeping"
  /\ ttasks[tid].due <= now
  /\ LET key == ttasks[tid].key
          cb == IF key[1] = "condition_dur" THEN "on_duration" ELSE "on_timeout"
      IN Yield([Mgr EXCEPT !.ttasks[tid].st = "running",
                           !.cont = <<Item(cb, key[2]),
                                      [Item("timer_finally", "") EXCEPT !.key = tid]>>],
               <<"timer", "">>, {})
  /\ UNCHANGED <<hub, now, startClock, lastDay, enabled, requested, script, rejects>>

\* aio.sleep of a clock task is over: clock_task calls the callback and loops
ClockFire(id) ==
  /\ id \in DOMAIN ctasks
  /\ ctasks[id] <= Wall
  /\ \E ord \in Orders(Acting) :
       Yield([Mgr EXCEPT !.cont = <<[Item("on_check_time", id[1]) EXCEPT !.todo = ord],
                                    [Item("clock_rearm", "") EXCEPT !.key = id]>>],
             <<"clock", "">>, {})
  /\ UNCHANGED <<hub, now, startClock, lastDay, enabled, requested, script, rejects>>

\* A second passes while some task sleeps (no code reads the time otherwise);
\* a sleep that is over wakes before more time passes.
Tick ==
  /\ now < MaxTicks
  /\ DOMAIN ttasks # {} \/ DOMAIN ctasks # {}
  /\ \A tid \in DOMAIN ttasks : ttasks[tid].st = "sleeping" => ttasks[tid].due > now
  /\ \A id \in DOMAIN ctasks : ctasks[id] > Wall
  /\ now' = now + 1
  /\ step' = Idle
  /\ UNCHANGED <<conditions, condition_deps, tracked_devices, latest_attributes,
                 subscriptions, device_value, subconditions, timers, ttasks, clocks,
                 ctasks, installed_rules, rules_file, hub, startClock, lastDay, tasks,
                 requested, enabled, riseTime, closures, scenes, scenes_file, script,
                 rejects, ran, logged>>

BooleanConds == {c \in CondIds : Cond[c].kind = "boolean"}

\* the state after construction, whatever the run is going to do
Fresh ==
  /\ hub = [p \in HubAttrs |-> CASE p = <<1, "switch">> -> "off"
                                 [] p = <<1, "level">>  -> "10"
                                 [] p = <<2, "motion">> -> "inactive"]
  /\ conditions = EmptyFn
  /\ condition_deps = EmptyFn
  /\ tracked_devices = EmptyFn
  /\ latest_attributes = EmptyFn
  /\ subscriptions = EmptyFn
  /\ device_value = EmptyFn
  /\ subconditions = [c \in BooleanConds |->
                        [s \in SeqRange(Cond[c].conditions) |-> FALSE]]
  /\ timers = EmptyFn
  /\ ttasks = EmptyFn
  /\ clocks = {}
  /\ ctasks = EmptyFn
  /\ installed_rules = EmptyFn
  /\ now = 0
  /\ tasks = {}
  /\ requested = {}
  /\ step = Idle
  /\ riseTime = [c \in CondIds |-> -1]
  /\ closures = EmptyFn
  /\ scenes = EmptyFn
  /\ ran = <<>>
  /\ logged = <<>>

\* a first run, in the middle of a month: nothing is persisted yet
FirstRun ==
  /\ rules_file = {}
  /\ scenes_file = {}
  /\ lastDay = FALSE

\* a run that installs and uninstalls rules
Init ==
  /\ script = "none"
  /\ rejects = {}
  /\ enabled \in {S \in SUBSET RuleNames :
                    /\ S # {}
                    /\ Cardinality(S) <= MaxRules
                    /\ Cardinality(UNION {TreeOf(Rule[r].trigger) : r \in S}) <= MaxConds}
  /\ startClock \in IF \E c \in EnabledConds : Cond[c].kind = "time_of_day"
                     THEN StartTimes ELSE {Noon}
  /\ FirstRun
  /\ Fresh

\* a run that executes one action list or creates one scene, next to at most
\* MaxScriptRules rules
InitActions ==
  /\ script \in ProgramNames \cup SceneNames
  /\ rejects \in IF script \in ProgramNames
                  THEN SUBSET SeqRange(CommandsOf(Program[script])) ELSE {{}}
  /\ enabled \in {S \in SUBSET RuleNames : Cardinality(S) <= MaxScriptRules}
  /\ startClock \in IF \E c \in EnabledConds : Cond[c].kind = "time_of_day"
                     THEN StartTimes ELSE {Noon}
  /\ FirstRun
  /\ Fresh

Next ==
  \/ \E r \in RuleNames : InstallRule(r)
  \/ \E r \in RuleNames : UninstallRule(r)
  \/ \E t \in tasks : FetchReturn(t)
  \/ \E p \in HubAttrs : \E v \in HubValues[p] : HubEvent(p, v)
  \/ \E tid \in DOMAIN ttasks : TimerFire(tid)
  \/ \E id \in DOMAIN ctasks : ClockFire(id)
  \/ Tick

Spec == Init /\ [][Next]_vars

NextActions ==
  \/ Next
  \/ \E p \in ProgramNames : ExecuteActions(p)
  \/ \E s \in SceneNames : CreateScene(s)
  \/ \E r \in RuleNames : InstallAgain(r)
  \/ \E s \in SceneNames : DeleteScene(s)

SpecActions == InitActions /\ [][NextActions]_vars

\* ------------------------------------------------------------ startup
RECURSIVE SavedItems(_, _)
\* the loop of install_saved_rules / install_saved_scenes over the loaded
\* models: each install stands in a try
SavedItems(k, q) ==
  IF q = <<>> THEN <<>>
  ELSE <<[Item(k, "") EXCEPT !.rule = Head(q)], [Item("except", "") EXCEPT !.rule = Head(q)]>>
         \o SavedItems(k, Tail(q))

\* app.startup (before_serving): install_saved_rules, then install_saved_scenes
Startup ==
  /\ "startup" \notin requested
  /\ requested' = requested \cup {"startup"}
  /\ \E q \in Orders(rules_file), g \in Orders(scenes_file) :
       Yield([Mgr EXCEPT !.cont = SavedItems("saved_rule", q) \o SavedItems("saved_scene", g)],
             <<"startup", "">>, {})
  /\ UNCHANGED <<hub, now, startClock, lastDay, enabled, script, rejects>>

\* requests are served once startup has returned
Serving == "startup" \in requested /\ \A t \in tasks : t.kind # "startup"

\* a device changes an attribute while the application does not serve yet: the
\* hub's POST to /he_event is lost
HubMissed(p, v) ==
  /\ ~Serving
  /\ p \in HubAttrs /\ p \in UNION {DevicesOf(c) : c \in EnabledConds} \cup ScenePairs
  /\ v \in HubValues[p] \ {hub[p]}
  /\ hub' = [hub EXCEPT ![p] = v]
  /\ Yield(Mgr, <<"unheard_event", "">>, {})
  /\ UNCHANGED <<now, startClock, lastDay, enabled, requested, script, rejects>>

\* a run that starts with a rules file and a scenes file a former run left
InitStartup ==
  /\ script \in SceneNames \cup {"none"}
  /\ rejects = {}
  /\ enabled \in {S \in SUBSET RuleNames :
                    /\ Cardinality(S) <= MaxSaved
                    /\ Cardinality(UNION {TreeOf(Rule[r].trigger) : r \in S}) <= MaxConds}
  /\ startClock \in IF \E c \in EnabledConds : Cond[c].kind = "time_of_day"
                     THEN StartTimes ELSE {Noon}
  /\ rules_file = enabled
  /\ scenes_file = SceneNames \cap {script}
  /\ lastDay = FALSE
  /\ Fresh

NextStartup ==
  \/ Startup
  \/ \E t \in tasks : FetchReturn(t)
  \/ \E p \in HubAttrs : \E v \in HubValues[p] : HubMissed(p, v)
  \/ \E p \in HubAttrs : \E v \in HubValues[p] : Serving /\ HubEvent(p, v)
  \/ \E tid \in DOMAIN ttasks : TimerFire(tid)
  \/ \E id \in DOMAIN ctasks : ClockFire(id)
  \/ Tick

SpecStartup == InitStartup /\ [][NextStartup]_vars

\* ------------------------------------------------------------ services
\* TimerService and ClockService driven by a caller of their own, with the
\* callbacks RuleProcessManager hands them: the ids are those of conditions
\* that are not installed, for which the callbacks do nothing.
TimerKeys == {DurKey("Dm"), ToKey("U1")}

ClockIds == {ClockId("Ti", t) : t \in SeqRange(CheckTimes("Ti"))}

\* await timers.start_timer(key, timedelta(seconds=d), callback)
StartTimerCall(key, d) ==
  /\ Cardinality(DOMAIN ttasks) < MaxTimers
  /\ Yield(StartTimer(Mgr, key, d), <<"start_timer", "">>, {})
  /\ UNCHANGED <<hub, now, startClock, lastDay, enabled, requested, script, rejects>>

\* timers.cancel_timer(key)
CancelTimerCall(key) ==
  /\ Yield(CancelTimer(Mgr, key), <<"cancel_timer", "">>, {})
  /\ UNCHANGED <<hub, now, startClock, lastDay, enabled, requested, script, rejects>>

\* await clocks.start_clock(id, time, callback)
StartClockCall(id) ==
  /\ Yield(StartClock(Mgr, id), <<"start_clock", "">>, {})
  /\ UNCHANGED <<hub, now, startClock, lastDay, enabled, requested, script, rejects>>

\* clocks.cancel_clock(id)
CancelClockCall(id) ==
  /\ Yield(CancelClock(Mgr, id), <<"cancel_clock", "">>, {})
  /\ UNCHANGED <<hub, now, startClock, lastDay, enabled, requested, script, rejects>>

\* a run of the two services alone, on any day of the month
InitServices ==
  /\ script = "none"
  /\ rejects = {}
  /\ enabled = {}
  /\ startClock \in StartTimes
  /\ lastDay \in BOOLEAN
  /\ rules_file = {}
  /\ scenes_file = {}
  /\ Fresh

NextServices ==
  \/ \E key \in TimerKeys : \E d \in 1..MaxTicks : StartTimerCall(key, d)
  \/ \E key \in TimerKeys : CancelTimerCall(key)
  \/ \E id \in ClockIds : StartClockCall(id)
  \/ \E id \in ClockIds : CancelClockCall(id)
  \/ \E tid \in DOMAIN ttasks : TimerFire(tid)
  \/ \E id \in DOMAIN ctasks : ClockFire(id)
  \/ Tick

SpecServices == InitServices /\ [][NextServices]_vars

\* ------------------------------------------------------------ restart
\* The process ends and is started again: the objects are gone with their
\* tasks, the files stay.
Restart ==
  /\ Serving
  /\ requested' = (requested \ {"startup"}) \cup {"restarted"}
  /\ Commit([Mgr EXCEPT !.conditions = EmptyFn, !.condition_deps = EmptyFn,
                        !.tracked_devices = EmptyFn, !.latest_attributes = EmptyFn,
                        !.subscriptions = EmptyFn, !.device_value = EmptyFn,
                        !.subconditions = [c \in BooleanConds |->
                                             [x \in SeqRange(Cond[c].conditions) |-> FALSE]],
                        !.timers = EmptyFn, !.ttasks = EmptyFn, !.clocks = {},
                        !.ctasks = EmptyFn, !.installed_rules = EmptyFn,
                        !.riseTime = [c \in CondIds |-> -1], !.closures = EmptyFn,
                        !.scenes = EmptyFn, !.ran = <<>>, !.logged = <<>>],
            <<"restart", "">>, tasks)
  /\ UNCHANGED <<hub, now, startClock, lastDay, enabled, script, rejects>>

\* uninstall_rule(rule_name) asked of the serving application; the names of
\* the rules it found installed are remembered in requested
UninstallCall(r) ==
  /\ Serving
  /\ UninstallRuleRun(r)
  /\ requested' = IF r \in DOMAIN installed_rules THEN requested \cup {r} ELSE requested

\* a run that reloads at most MaxScriptRules saved rules, is asked to
\* uninstall them, and is restarted once
InitRestart ==
  /\ InitStartup
  /\ script = "none"
  /\ Cardinality(enabled) <= MaxScriptRules

NextRestart ==
  \/ NextStartup
  \/ \E r \in RuleNames : UninstallCall(r)
  \/ "restarted" \notin requested /\ Restart

SpecRestart == InitRestart /\ [][NextRestart]_vars

\* ------------------------------------------------------ process manager
\* RuleProcessManager driven by one caller of its own, which awaits each
\* add_condition before its next call.
\* await rpm.add_condition(c)
AddConditionCall(c) ==
  /\ tasks = {}
  /\ c \notin requested
  /\ requested' = requested \cup {c}
  /\ Yield([Mgr EXCEPT !.stack = <<Frame(c)>>], <<"add_condition", c>>, {})
  /\ UNCHANGED <<hub, now, startClock, lastDay, enabled, script, rejects>>

\* rpm.remove_condition(c), of a condition that was added or not
RemoveConditionCall(c) ==
  /\ tasks = {}
  /\ requested' = requested \ {c}
  /\ Yield(RemoveCondition(Mgr, c), <<"remove_condition", c>>, {})
  /\ UNCHANGED <<hub, now, startClock, lastDay, enabled, script, rejects>>

InitProcess ==
  /\ script = "process"
  /\ rejects = {}
  /\ enabled = {}
  /\ startClock = Noon
  /\ FirstRun
  /\ Fresh

NextProcess ==
  \/ \E c \in ProcessConds : AddConditionCall(c)
  \/ \E c \in ProcessConds : RemoveConditionCall(c)
  \/ \E t \in tasks : FetchReturn(t)
  \/ \E p \in HubAttrs : \E v \in HubValues[p] : HubEvent(p, v)

SpecProcess == InitProcess /\ [][NextProcess]_vars

\* ------------------------------------------------------------- claims
\* how often the action of condition c was invoked in the last step
Invocations(c) == Cardinality({i \in 1..Len(step.invoked) : step.invoked[i] = c})

\* C1: the action of a condition with a duration d is never invoked less than
\* d seconds after the condition's most recent rising edge.
C1_DurationRespected ==
  \A c \in CondIds :
    (Cond[c].duration # NoDuration /\ Invocations(c) > 0) =>
      (riseTime[c] >= 0 /\ now - riseTime[c] >= Cond[c].duration)

\* C2: in every propagation the action of a condition without a duration is
\* invoked exactly once if the condition's recorded truth rose, and not at all
\* if it fell or stayed.
C2_RisingEdgeFiresOnce ==
  step.propagated =>
    \A c \in CondIds :
      (Cond[c].act # "none" /\ Cond[c].duration = NoDuration) =>
        Invocations(c) = (IF c \in step.rose THEN 1 ELSE 0)

\* C3: when the handler that fired a rule's trigger has run to its end, the
\* trigger is installed again.
C3_TriggerRearmed ==
  (step.invoked # <<>> /\ ~step.suspended) =>
    \A c \in SeqRange(step.invoked) : c \in DOMAIN conditions

\* the manager has a cached value of the pair p
Cached(p) == p[1] \in DOMAIN latest_attributes /\ p[2] \in DOMAIN latest_attributes[p[1]]

\* the hub client delivers the events of the pair p to the manager
Subscribed(p) == p[1] \in DOMAIN subscriptions /\ p[2] \in subscriptions[p[1]]

\* the installed conditions that observe the pair p
Observers(conds, p) == {c \in DOMAIN conds : p \in DevicesOf(c)}

\* the pairs present in the tracking map
TrackedPairs == {p \in HubAttrs : p[1] \in DOMAIN tracked_devices
                                   /\ p[2] \in DOMAIN tracked_devices[p[1]]}

\* C4: while no manager operation is in progress, every pair an installed
\* condition observes is cached and subscribed, and every tracked pair is
\* observed by an installed condition.
C4_TrackedPairsServed ==
  tasks = {} =>
    /\ \A p \in HubAttrs : Observers(conditions, p) # {} => Cached(p) /\ Subscribed(p)
    /\ \A p \in TrackedPairs : Observers(conditions, p) # {}

\* C5: a pair's subscription begins only when its first observer is installed
\* and ends only when no installed condition observes the pair any more.
C5_SubscriptionsRefCounted ==
  [][\A p \in HubAttrs :
       /\ (Subscribed(p) /\ ~Subscribed(p)') => Observers(conditions', p) = {}
       /\ (~Subscribed(p) /\ Subscribed(p)') =>
             (Observers(conditions, p) = {} /\ Observers(conditions', p) # {})]_vars

\* C6: once no condition is installed and no operation is in progress, the
\* tracking map, the cache, the dependency map and the subscriptions are empty.
C6_EmptyAfterRemoval ==
  (tasks = {} /\ DOMAIN conditions = {}) =>
    /\ DOMAIN tracked_devices = {}
    /\ DOMAIN latest_attributes = {}
    /\ DOMAIN condition_deps = {}
    /\ DOMAIN subscriptions = {}

\* the coroutines that handle a device event, a timer callback or a clock tick
HandlerKinds == {"device_event", "timer", "clock"}

NoPartialCondition ==
  /\ \A p \in TrackedPairs : tracked_devices[p[1]][p[2]] \subseteq DOMAIN conditions
  /\ \A s \in DOMAIN condition_deps : condition_deps[s] \subseteq DOMAIN conditions

\* C8: a device event or clock tick is never handled in a state where the
\* tracking map or condition_deps names a condition that is not installed.
C8_HandlersSeeWholeConditions ==
  [][step'.kind \in {"device_event", "clock"} => NoPartialCondition]_vars

\* C9: after a completed add_condition or propagation, the recorded truth of
\* every installed Boolean condition is its operator over the recorded truths
\* of its sub-conditions.
C9_BooleanTruthFollowsChildren ==
  (step.added # {} \/ step.propagated) =>
    \A c \in DOMAIN conditions :
      (Cond[c].kind = "boolean" /\ SeqRange(Cond[c].conditions) \subseteq DOMAIN conditions) =>
        conditions[c] = EvaluateBoolean(c, conditions)

\* C10: right after add_condition(c) completes, the recorded truth of c is
\* what c.evaluate() returns.
C10_CheckStateIsEvaluate ==
  \A c \in step.added : c \in DOMAIN conditions => conditions[c] = Evaluate(Mgr, c)

\* the coroutines that install conditions without any propagation before
InstallKinds == {"install_rule", "execute_actions", "create_scene"}

\* C11: the action of a condition without a duration and without
\* trigger_always is never invoked by the coroutine that installs it, however
\* true the condition is on install; it is invoked only by a propagation in
\* which its recorded truth rose.
C11_NoActionAtInstall ==
  \A c \in CondIds :
    (Cond[c].duration = NoDuration /\ ~TriggerAlways(c) /\ Invocations(c) > 0) =>
      (step.kind \notin InstallKinds /\ c \in step.rose)

\* C11 witness: an installation has just recorded a condition that has an
\* action and no duration as true, and has invoked nothing
C11_InstalledTrue ==
  /\ step.kind \in InstallKinds
  /\ step.invoked = <<>>
  /\ \E c \in step.added :
       /\ Cond[c].act # "none" /\ Cond[c].duration = NoDuration
       /\ c \in DOMAIN conditions /\ conditions[c]

\* every check of the scene s holds for the hub's current attribute values
SceneSatisfied(s) == \A k \in Scene[s].checks : hub[<<k[1], k[2]>>] = k[3]

WaiterConds == {c \in CondIds : Cond[c].act = "triggered"}

\* how many continuations of the compiled condition c have run so far
PathsRun(c) == Cardinality({i \in 1..Len(ran) : ran[i][1] = c})

\* C13: of the two continuations of an Until's or Wait's compiled condition
\* (trigger path, timeout path) at most one ever runs, and once one has run
\* the condition is no longer installed.
C13_OnePathPerWaiter ==
  \A c \in WaiterConds :
    /\ PathsRun(c) <= 1
    /\ PathsRun(c) > 0 => c \notin DOMAIN conditions

\* C13 witness: the trigger path of a compiled condition with a timeout has
\* run, the condition is uninstalled and its timeout timer is gone
C13_TriggerPathRan ==
  \E c \in WaiterConds :
    /\ ran = << <<c, "trigger">> >>
    /\ Cond[c].timeout # NoDuration
    /\ c \notin DOMAIN conditions
    /\ ToKey(c) \notin DOMAIN timers

\* the commands the last step sent to the hub, in order
SentCommands == [i \in 1..Len(step.sent) |-> step.sent[i].command]

\* the compiled conditions of the Until actions of the catalogue
UntilConds ==
  {c \in WaiterConds :
     \E p \in ProgramNames : \E i \in 1..Len(Program[p]) :
       Program[p][i].kind = "until" /\ Program[p][i].cond = c}

\* C14: while an Until with a timeout waits, its timeout is pending whatever
\* kind its condition is; when the timeout expires the step sends the
\* commands of timeout_actions and then of the remaining actions, and when the
\* condition triggers first the step sends those of until_actions and then of
\* the remaining actions.
C14_UntilRunsOnePath ==
  \A c \in UntilConds :
    /\ c \in DOMAIN conditions => ToKey(c) \in DOMAIN timers
    /\ c \in SeqRange(step.timedout) =>
         SentCommands = CommandsOf(closures[c].timeout_action)
    /\ c \in SeqRange(step.invoked) =>
         SentCommands = CommandsOf(closures[c].action)

\* the compiled conditions of the Wait actions of the catalogue
WaitConds == WaiterConds \ UntilConds

\* the timeout of the Wait that compiled c ran out in the last step: its
\* timeout timer fired or, for a Wait without a predicate, the timer of its
\* TrueCondition
WaitTimedOut(c) ==
  \/ c \in SeqRange(step.timedout)
  \/ Cond[c].kind = "true" /\ c \in SeqRange(step.invoked)

\* C15: when a Wait ends by its timeout, the step sends no command if
\* end_on_timeout is set and the commands of the remaining actions if it is
\* not, with or without a predicate.
C15_WaitTimeoutContinues ==
  \A c \in WaitConds :
    WaitTimedOut(c) =>
      SentCommands = (IF closures[c].exit_on_timeout THEN <<>>
                      ELSE CommandsOf(closures[c].timeout_action))

\* the predicate compiled to c is true of the hub's values and the wall clock
PredicateHolds(c) ==
  CASE Cond[c].kind = "device" ->
         EvaluateDevice(c, CastValue(c, hub[<<Cond[c].device_id, Cond[c].attribute>>]))
    [] Cond[c].kind = "time_of_day" -> EvaluateTimeOfDay(c)

\* the list an IfThenElse puts before the remaining actions
ExpectedBranch(a) ==
  IF PredicateHolds(a.cond) THEN a.then_actions
  ELSE IF a.has_else THEN a.else_actions ELSE <<>>

\* the action lists of the catalogue that begin with an IfThenElse
IteProgram(p) == p \in ProgramNames /\ Program[p][1].kind = "if_then_else"

\* C16: when the interpretation of a list that begins with an IfThenElse has
\* ended, it has sent the commands of then_actions and the remaining actions
\* if the predicate is true at that moment, and else those of else_actions
\* (if any) and the remaining actions.
C16_IfThenElseBranches ==
  (step.kind = "execute_actions" /\ ~step.suspended /\ IteProgram(step.arg)) =>
    SentCommands = CommandsOf(ExpectedBranch(Program[step.arg][1]) \o Tail(Program[step.arg]))

\* C17: a command the hub refuses is the last thing its action sequence does:
\* the Exception of send_command ends the coroutine that interpreted the
\* sequence, and no command of a later action is sent.
C17_FailedCommandAborts ==
  \A i \in 1..Len(step.sent) :
    ~step.sent[i].ok =>
      /\ i = Len(step.sent)
      /\ step.exc = "Exception"
      /\ ~step.suspended

\* the first command of a list of two is refused
C17_CommandRefused ==
  /\ step.kind = "execute_actions"
  /\ Len(CommandsOf(Program[step.arg])) > 1
  /\ step.sent = <<[command |-> CommandsOf(Program[step.arg])[1], ok |-> FALSE]>>
  /\ step.exc = "Exception"

\* what install_rule would change: the index, the file, and what add_condition
\* registers in the process manager
installState ==
  <<installed_rules, rules_file, conditions, condition_deps, tracked_devices,
    subscriptions, timers, clocks>>

\* C18: install_rule of a name that is in the index raises ValueError and
\* leaves the index, the installed conditions and the rules file as they
\* were.
C18_DuplicateInstallRejected ==
  [][\A r \in RuleNames :
       (r \in DOMAIN installed_rules /\ step'.kind = "install_rule" /\ step'.arg = r) =>
         (step'.exc = "ValueError" /\ ~step'.suspended /\ UNCHANGED installState)]_vars

\* install_rule of an installed name has been refused
C18_DuplicateRefused ==
  /\ step.kind = "install_rule" /\ step.exc = "ValueError"
  /\ step.arg \in DOMAIN installed_rules
  /\ step.arg \in rules_file
  /\ Rule[step.arg].trigger \in DOMAIN conditions

\* the conditions only rule r has installed: its trigger and sub-conditions,
\* less those another installed rule or the run's action list also uses
OwnConds(r) ==
  (TreeOf(installed_rules[r])
     \ UNION {TreeOf(installed_rules[q]) : q \in DOMAIN installed_rules \ {r}})
  \ ScriptConds

\* C19: a call uninstall_rule(r) that has ended leaves r out of the index and
\* of the rules file and none of r's own conditions recorded in the process
\* manager, if r was in the index; if it was not, the call changes nothing.
C19_UninstallRemovesRule ==
  [][\A r \in RuleNames :
       (step'.kind = "uninstall_rule" /\ step'.arg = r /\ ~step'.suspended) =>
         IF r \in DOMAIN installed_rules
         THEN /\ r \notin DOMAIN installed_rules'
              /\ r \notin rules_file'
              /\ OwnConds(r) \cap DOMAIN conditions' = {}
         ELSE UNCHANGED installState]_vars

\* C20: when create_scene of a scene whose checks the hub's values all
\* satisfy has ended, the scene is registered with is_set true and the call
\* has installed a trigger for it, without raising.
C20_SatisfiedSceneIsSet ==
  \A s \in SceneNames :
    (step.kind = "create_scene" /\ step.arg = s /\ ~step.suspended /\ SceneSatisfied(s)) =>
      /\ step.exc = NoExc
      /\ s \in DOMAIN scenes /\ scenes[s]
      /\ step.added # {}

\* the triggers of scene s that are installed in the process manager
InstalledTriggers(s) == {Scene[s].set_trigger, Scene[s].unset_trigger} \cap DOMAIN conditions

\* the one trigger scene s is to wait on: the unset trigger of a scene that is
\* set, the set trigger of one that is not
WaitingTrigger(s) == IF scenes[s] THEN Scene[s].unset_trigger ELSE Scene[s].set_trigger

LoggedNames == {logged[i][1] : i \in 1..Len(logged)}

\* C24: when startup has ended, the rule index and the rules file hold the
\* rules the file held before, each with its trigger installed, and the scene
\* index and the scenes file hold the scenes that file held.
C24_ReloadIdempotent ==
  (step.kind = "startup" /\ ~step.suspended) =>
    /\ DOMAIN installed_rules = enabled
    /\ rules_file = enabled
    /\ \A r \in enabled : Rule[r].trigger \in DOMAIN conditions
    /\ DOMAIN scenes = SceneNames \cap {script}
    /\ scenes_file = SceneNames \cap {script}

\* C25: when startup has ended it has raised nothing, and every rule and
\* scene of the files is installed or was logged as failed: no install was
\* skipped because an earlier one failed.
C25_FailedInstallLogged ==
  (step.kind = "startup" /\ ~step.suspended) =>
    /\ step.exc = NoExc
    /\ \A r \in enabled : r \in DOMAIN installed_rules \/ r \in LoggedNames
    /\ \A g \in SceneNames \cap {script} : g \in DOMAIN scenes \/ g \in LoggedNames

\* a reload has ended in which an install failed and a later one succeeded:
\* the failure was logged before the last stretch, which installed a rule
C25_InstalledAfterFailure ==
  /\ step.kind = "startup" /\ ~step.suspended
  /\ Len(logged) > 0 /\ step.caught = <<>>
  /\ \E r \in DOMAIN installed_rules : r \notin LoggedNames /\ Rule[r].trigger \in step.added

\* C26: after start(id, ...) every timer that is still to fire is the one
\* registered under its id: a start over a pending timer leaves one pending
\* timer under the id, the new one, and it is registered (so cancellable).
C26_RestartLeavesOneTimer ==
  \A tid \in DOMAIN ttasks :
    ttasks[tid].st \in {"new", "sleeping"} =>
      /\ ttasks[tid].key \in DOMAIN timers
      /\ timers[ttasks[tid].key] = tid

\* C27: cancel(id) returns true exactly when a timer started under id is still
\* to fire (it has neither fired nor been cancelled).
C27_CancelReturnsPending ==
  \A i \in 1..Len(step.cancels) :
    step.cancels[i].returned <=> step.cancels[i].pending

\* C28: once a timer has fired, cancel(id) returns false and the callback runs
\* to its end: a step of a timer task that called cancel on its own timer got
\* false and ended without an exception.
C28_CancelAfterFireIsNoOp ==
  step.kind = "timer" =>
    /\ \A i \in 1..Len(step.cancels) :
         step.cancels[i].fired => ~step.cancels[i].returned
    /\ step.exc = NoExc

\* C29: a registered clock has a task that sleeps until the next occurrence of
\* its time of day, at most a day ahead, and only registered clocks have one.
C29_ClockArmedForNextOccurrence ==
  /\ \A id \in clocks :
       /\ id \in DOMAIN ctasks
       /\ ctasks[id] % SecondsPerDay = id[2] * SecondsPerMinute
       /\ ctasks[id] >= Wall
       /\ ctasks[id] - Wall <= SecondsPerDay
  /\ \A id \in DOMAIN ctasks : id \in clocks

\* C30: when the clock reaches HH:MM and the action of a rule on
\* `time_of_day is HH:MM` fires, it fires once and the handler ends with the
\* trigger installed and both check times armed (or still installing it): the
\* condition is re-evaluated a minute later and can rise again the next day.
C30_IsFiresOnceAndStaysArmed ==
  (step.kind = "clock" /\ "Ti" \in SeqRange(step.invoked)) =>
    /\ Cardinality({i \in 1..Len(step.invoked) : step.invoked[i] = "Ti"}) = 1
    /\ step.exc = NoExc
    /\ step.suspended
         \/ ("Ti" \in DOMAIN conditions /\ \A id \in ClockIds : id \in DOMAIN ctasks)

\* C31: a timer that is still to fire, or a clock that still sleeps, belongs to
\* an installed condition: remove_condition(c) leaves no duration timer, timeout
\* timer or check-time clock of c behind that could call back for c.
C31_NoTimerOfRemovedCondition ==
  /\ \A tid \in DOMAIN ttasks :
       ttasks[tid].st \in {"new", "sleeping"} => ttasks[tid].key[2] \in DOMAIN conditions
  /\ \A id \in DOMAIN ctasks : id[1] \in DOMAIN conditions

\* uninstall_rule's remove_condition has just cancelled the pending timer of a
\* condition that is gone now
C31_RemovedWithPendingTimer ==
  step.kind = "uninstall_rule" /\ \E i \in 1..Len(step.cancels) :
    /\ step.cancels[i].returned /\ step.cancels[i].pending
    /\ step.cancels[i].key[2] \notin DOMAIN conditions

\* C32: remove_condition(p) leaves a sub-condition of p installed when that
\* sub-condition was also added on its own through add_condition (and its
\* add_condition has returned).
C32_SharedSubConditionStays ==
  [][(/\ step'.kind = "remove_condition" /\ step'.arg = "P"
      /\ "P" \in DOMAIN conditions
      /\ "S1" \in requested /\ "S1" \in DOMAIN conditions)
     => "S1" \in DOMAIN conditions']_vars

\* C33: the rule on motion = active for a duration sends `off` only when
\* motion has stayed active for the duration, and the firing of the rule is the
\* step of its duration timer, which sends `off` exactly once.
C33_DebouncedOff ==
  /\ \A i \in 1..Len(step.sent) :
       step.sent[i].command = "off" =>
         (riseTime["Dm"] >= 0 /\ now - riseTime["Dm"] >= Cond["Dm"].duration)
  /\ "Dm" \in SeqRange(step.invoked) =>
       (step.kind = "timer" /\ step.sent = <<[command |-> "off", ok |-> TRUE]>>)

\* C34: when the install of a rule on level of device 1 ends while switch of
\* the same device is tracked for installed conditions, it has succeeded: the
\* condition is installed, level is cached, and the events of both attributes
\* are passed on to the manager.
C34_SecondAttributeInstalls ==
  (/\ step.kind = "install_rule" /\ step.arg = "r_level" /\ ~step.suspended
   /\ 1 \in DOMAIN tracked_devices /\ "switch" \in DOMAIN tracked_devices[1]
   /\ tracked_devices[1]["switch"] # {}
   /\ \A c \in tracked_devices[1]["switch"] : c \in DOMAIN conditions) =>
    /\ step.exc = NoExc
    /\ "D2" \in DOMAIN conditions
    /\ Cached(<<1, "level">>)
    /\ Subscribed(<<1, "switch">>) /\ Subscribed(<<1, "level">>)

\* C35: when an action list with an IfThenElse has been interpreted, next to
\* the rules that are installed and with no other coroutine under way, nothing
\* of the predicate is left in the process manager: it is not installed, every
\* tracked pair is tracked for installed conditions, only tracked pairs are
\* cached, and the pairs of the installed conditions are still subscribed.
C35_IfThenElseLeavesNoTrace ==
  (/\ step.kind = "execute_actions" /\ ~step.suspended /\ script \in {"p_if", "p_if_time"}
   /\ tasks = {} /\ enabled \subseteq DOMAIN installed_rules) =>
    /\ ScriptConds \cap DOMAIN conditions = {}
    /\ \A d \in DOMAIN tracked_devices : \A a \in DOMAIN tracked_devices[d] :
         tracked_devices[d][a] # {} /\ tracked_devices[d][a] \subseteq DOMAIN conditions
    /\ \A p \in HubAttrs :
         Cached(p) => (p[1] \in DOMAIN tracked_devices /\ p[2] \in DOMAIN tracked_devices[p[1]])
    /\ \A c \in DOMAIN conditions : \A p \in DevicesOf(c) : Subscribed(p)

\* C36: a Wait without a predicate and with end_on_timeout = false is a delay:
\* the commands of the remaining actions are sent by the step of the Wait's
\* timer, not before the timeout has passed since the Wait was interpreted,
\* and that step sends them once.
C36_WaitIsPureDelay ==
  script = "p_delay" =>
    /\ \A i \in 1..Len(step.sent) :
         (step.kind = "timer" /\ now - riseTime["Wd"] >= Cond["Wd"].duration)
    /\ "Wd" \in SeqRange(step.invoked) =>
         SentCommands = CommandsOf(closures["Wd"].action)

\* C37: once uninstall_rule(name) has found the rule and ended, the rule
\* never acts again: its trigger is never installed and never fires from then on.
C37_UninstalledRuleStaysOff ==
  \A r \in RuleNames :
    r \in requested =>
      /\ Rule[r].trigger \notin DOMAIN conditions
      /\ Rule[r].trigger \notin SeqRange(step.invoked)

\* C38: a rule has at most one firing at a time: a step invokes the action of
\* a rule's trigger at most once, and when it has invoked it the trigger is no
\* longer installed (unless an Exit of that step installed it again), so the
\* rule cannot fire while that firing goes on.
C38_OneFiringAtATime ==
  \A c \in CondIds :
    Cond[c].act = "rule" =>
      /\ Invocations(c) <= 1
      /\ (Invocations(c) = 1 /\ c \notin step.added) => c \notin DOMAIN conditions

\* the trigger of an installed rule has just fired on a device event
C38_TriggerFiredAndGone ==
  \E r \in DOMAIN installed_rules :
    /\ step.kind = "device_event"
    /\ Invocations(installed_rules[r]) = 1
    /\ installed_rules[r] \notin DOMAIN conditions

\* C39: remove_condition of a condition that is not installed raises nothing
\* and leaves the installed conditions, the tracking map, the cached values
\* and the subscriptions as they were.
C39_RemoveOfAbsentIsNoOp ==
  [][(/\ step'.kind = "remove_condition"
      /\ step'.arg \notin DOMAIN conditions)
     => /\ step'.exc = NoExc
        /\ conditions' = conditions
        /\ tracked_devices' = tracked_devices
        /\ latest_attributes' = latest_attributes
        /\ subscriptions' = subscriptions]_vars

\* C40: a propagation pass in which several conditions with an action rose,
\* and in which an invoked action removed one of them, completes without an
\* error, and invokes the action of each of them that is still installed.
C40_PassSurvivesRemovals ==
  (/\ step.kind = "device_event"
   /\ Cardinality({c \in step.rose : Cond[c].act # "none"}) >= 2
   /\ \E c \in SeqRange(step.invoked) : c \in step.rose /\ c \notin DOMAIN conditions)
  => /\ step.exc = NoExc
     /\ \A c \in step.rose :
          (Cond[c].act # "none" /\ c \in DOMAIN conditions) => c \in SeqRange(step.invoked)

====
